---- MODULE Spec2Model ----
(***************************************************************************)
(* A model of FloraJS' Agent (src/src/agent.js): the per-frame step(), the *)
(* force accumulation (sensors, motor, wind, gravity, flocking, edge       *)
(* avoidance), the world-edge policy, the camera, the parent offset and    *)
(* the accessors.                                                          *)
(*                                                                         *)
(* Numbers.  JavaScript numbers are modelled as fixed-point integers in    *)
(* units of 1/Q; a product or quotient that is not a multiple of 1/Q is    *)
(* truncated toward zero.  The inputs drawn in Init are chosen so that the *)
(* magnitudes the clamps work on are exact (vectors parallel to an axis,   *)
(* or diagonal ones the clamps leave alone).                               *)
(*                                                                         *)
(* Objects.  A Vector is a mutable object.  An agent's location field is a *)
(* reference (locRef) to a cell holding the vector, so that the assignment *)
(* this.location = this.parent.location shares one cell between two        *)
(* agents, as it does in the program.                                      *)
(***************************************************************************)
EXTENDS Integers, Sequences, FiniteSets, TLC

\* ------------------------------------------------------------------ bounds

NumAgents == 2
MaxFrames == 3
MaxPushes == 2

\* --------------------------------------------------------------- numbers

Q == 20

R(n) == n * Q

Abs(n) == IF n < 0 THEN -n ELSE n

TDiv(a, b) ==
  IF b = 0 THEN 0
  ELSE IF (a >= 0) = (b > 0) THEN Abs(a) \div Abs(b)
  ELSE -(Abs(a) \div Abs(b))

SMul(a, s) == TDiv(a * s, Q)

SDiv(a, s) == TDiv(a * Q, s)

RECURSIVE Bisect(_, _, _)
Bisect(lo, hi, n) ==
  IF hi - lo <= 1 THEN lo
  ELSE LET mid == (lo + hi) \div 2
       IN IF mid * mid <= n THEN Bisect(mid, hi, n) ELSE Bisect(lo, mid, n)

ISqrt(n) == Bisect(0, 46341, n)

\* The single element of a singleton set: {e(x) : x \in {v}} names the value
\* v once, however often e uses it.
Only(S) == CHOOSE x \in S : TRUE

\* --------------------------------------------------------------- Vector

Vector(x, y) == [x |-> x, y |-> y]

ZeroVector == Vector(0, 0)

VAdd(v, w) == Vector(v.x + w.x, v.y + w.y)

VectorSub(v, w) == Vector(v.x - w.x, v.y - w.y)

VMult(v, s) == Vector(SMul(v.x, s), SMul(v.y, s))

VDiv(v, s) == Vector(SDiv(v.x, s), SDiv(v.y, s))

MagSq(v) == v.x * v.x + v.y * v.y

Mag(v) ==
  IF v.y = 0 THEN Abs(v.x)
  ELSE IF v.x = 0 THEN Abs(v.y)
  ELSE ISqrt(MagSq(v))

Normalize(v) == IF Mag(v) # 0 THEN VDiv(v, Mag(v)) ELSE v

\* mag() compared with a non-negative scalar: exact, on the squares.
MagGT(v, s) == MagSq(v) > s * s

MagLT(v, s) == MagSq(v) < s * s

Limit(v, high) == IF MagGT(v, high) THEN VMult(Normalize(v), high) ELSE v

LimitLow(v, low) == IF MagLT(v, low) THEN VMult(Normalize(v), low) ELSE v

Distance(v, w) == Mag(VectorSub(v, w))

\* Math.cos / Math.sin of an angle in degrees, in units of 1/Q; the model's
\* angles are multiples of 45 degrees.
CosDeg(d) ==
  LET m == d % 360
  IN CASE m = 0 -> Q
       [] m = 90 -> 0
       [] m = 180 -> -Q
       [] m = 270 -> 0
       [] m = 45 \/ m = 315 -> (7071 * Q) \div 10000
       [] OTHER -> -((7071 * Q) \div 10000)

SinDeg(d) == CosDeg(d + 270)

\* Utils.radiansToDegrees(Math.atan2(y, x)), to the nearest multiple of 45.
Atan2Deg(y, x) ==
  LET ax == Abs(x)
      ay == Abs(y)
      oct == IF 2 * ay <= ax THEN 0 ELSE IF 2 * ax <= ay THEN 90 ELSE 45
  IN IF x >= 0 /\ y >= 0 THEN oct
     ELSE IF x < 0 /\ y >= 0 THEN 180 - oct
     ELSE IF x < 0 /\ y < 0 THEN -(180 - oct)
     ELSE -oct

\* ----------------------------------------------------------------- state

Agents == 1..NumAgents

VARIABLES
  opt,                     \* [agent -> the options the constructor stored]
  isPressed,               \* [agent -> BOOLEAN], set by the mouse handlers
  locRef,                  \* [agent -> the cell its location field refers to]
  cell,                    \* [cell -> Vector], one cell allocated per agent
  velocity,                \* [agent -> Vector]
  acceleration,            \* [agent -> Vector]
  angle,                   \* [agent -> degrees]
  lifespan,                \* [agent -> Int]
  zeroForceVector,         \* [agent -> Vector], scratch
  separateSumForceVector,  \* [agent -> Vector], scratch
  alignSumForceVector,     \* [agent -> Vector], scratch
  cohesionSumForceVector,  \* [agent -> Vector], scratch
  cameraDiffVector,        \* [agent -> Vector], scratch
  applyForceVector,        \* [agent -> Vector], scratch
  sensors,                 \* [agent -> Seq([location, activated])]
  world,                   \* [width, height, wind, gravity, location]
  cursor,                  \* the agent the driver steps next in this frame
  frame,                   \* frames completed
  frameStart,              \* population at the end of the previous frame
  activeSteps,             \* [agent -> active steps taken so far]
  pushed,                  \* [agent -> force/mass applied between steps]
  pushes,                  \* applyForce() calls made from outside
  motorOff,                \* [agent -> a sensor has suppressed its motor]
  last,                    \* what the most recent step() call did
  ret                      \* what the most recent accessor call returned

vars ==
  << opt, isPressed, locRef, cell, velocity, acceleration, angle, lifespan,
     zeroForceVector, separateSumForceVector, alignSumForceVector,
     cohesionSumForceVector, cameraDiffVector, applyForceVector, sensors,
     world, cursor, frame, frameStart, activeSteps, pushed, pushes,
     motorOff, last, ret >>

\* this.location of agent a
Location(a) == cell[locRef[a]]

\* elementList.all(): the live objects, read when the caller reads them
Elements == [loc |-> [b \in Agents |-> Location(b)], vel |-> velocity]

\* ------------------------------------------------------------ applyForce

\* Variant: the force added as it is, not divided by the mass.
ApplyForceUndivided(acc, force, mass) == VAdd(acc, force)

\* this.acceleration after applyForce(force)
ApplyForce(acc, force, mass) == VAdd(acc, VDiv(force, mass))

\* Variant: the division by the mass done in the vector passed in.
ForceAfterApplyDivided(force, mass) == VDiv(force, mass)

\* The vector passed to applyForce(force), after the call: its x and y were
\* copied into applyForceVector and it was not written.
ForceAfterApply(force, mass) == force

\* this.applyForce(force) within the force phase of step().  st holds the
\* agent's acceleration (acc), its scratch vectors (buf: applyForceVector;
\* zero, sep, ali, coh), the local sensorActivated, what the flocking
\* behaviours returned (rets) and the forces applied so far (applied).
Applied(st, src, force, mass) ==
  [st EXCEPT !.acc = ApplyForce(st.acc, force, mass),
             !.buf = VDiv(force, mass),
             !.applied = Append(st.applied, [src |-> src, force |-> force])]

\* --------------------------------------------------------------- flocking

SameFlock(a, b) == opt[a].className = opt[b].className /\ a # b

InRange(d, radius) == d > 0 /\ d < radius

RECURSIVE SeparateScan(_, _, _, _)
SeparateScan(a, pop, i, st) ==
  IF i > NumAgents THEN st
  ELSE LET d == Distance(pop.loc[a], pop.loc[i])
           diff == VDiv(Normalize(VectorSub(pop.loc[a], pop.loc[i])), d)
       IN IF SameFlock(a, i) /\ InRange(d, opt[a].desiredSeparation)
          THEN SeparateScan(a, pop, i + 1,
                 [sum |-> VAdd(st.sum, diff), count |-> st.count + 1])
          ELSE SeparateScan(a, pop, i + 1, st)

RECURSIVE AlignScan(_, _, _, _)
AlignScan(a, pop, i, st) ==
  IF i > NumAgents THEN st
  ELSE LET d == Distance(pop.loc[a], pop.loc[i])
       IN IF InRange(d, 2 * opt[a].width) /\ SameFlock(a, i)
          THEN AlignScan(a, pop, i + 1,
                 [sum |-> VAdd(st.sum, pop.vel[i]), count |-> st.count + 1])
          ELSE AlignScan(a, pop, i + 1, st)

RECURSIVE CohesionScan(_, _, _, _)
CohesionScan(a, pop, i, st) ==
  IF i > NumAgents THEN st
  ELSE LET d == Distance(pop.loc[a], pop.loc[i])
       IN IF InRange(d, R(10)) /\ SameFlock(a, i)
          THEN CohesionScan(a, pop, i + 1,
                 [sum |-> VAdd(st.sum, pop.loc[i]), count |-> st.count + 1])
          ELSE CohesionScan(a, pop, i + 1, st)

\* sum.normalize(); sum.mult(maxSpeed); sum.sub(velocity); sum.limit(maxSteeringForce)
Steer(a, pop, v) ==
  Limit(VectorSub(VMult(Normalize(v), opt[a].maxSpeed), pop.vel[a]),
        opt[a].maxSteeringForce)

\* Each behaviour returns one of the agent's own vector objects: "sum" (its
\* accumulator, holding the steering force) or "zero" (zeroForceVector);
\* sum is the accumulator's value when the call returns, start its value
\* when the loop over the elements begins.
separate(a, pop, sum0) ==
  LET st == SeparateScan(a, pop, 1, [sum |-> ZeroVector, count |-> 0])
  IN IF st.count > 0
     THEN [obj |-> "sum", start |-> ZeroVector,
           sum |-> Steer(a, pop, VDiv(st.sum, R(st.count)))]
     ELSE [obj |-> "zero", start |-> ZeroVector, sum |-> st.sum]

align(a, pop, sum0) ==
  LET st == AlignScan(a, pop, 1, [sum |-> ZeroVector, count |-> 0])
  IN IF st.count > 0
     THEN [obj |-> "sum", start |-> ZeroVector,
           sum |-> Steer(a, pop, VDiv(st.sum, R(st.count)))]
     ELSE [obj |-> "zero", start |-> ZeroVector, sum |-> st.sum]

\* Variant: the accumulator returned also when count = 0.
cohesionReturnsSum(a, pop, sum0) ==
  LET st == CohesionScan(a, pop, 1, [sum |-> Vector(sum0.x, 0), count |-> 0])
  IN IF st.count > 0
     THEN [obj |-> "sum", start |-> Vector(sum0.x, 0),
           sum |-> Steer(a, pop,
                     VectorSub(VDiv(st.sum, R(st.count)), pop.loc[a]))]
     ELSE [obj |-> "sum", start |-> Vector(sum0.x, 0), sum |-> st.sum]

\* cohesionSumForceVector.y is reset (twice); .x keeps its previous value
cohesion(a, pop, sum0) ==
  LET st == CohesionScan(a, pop, 1, [sum |-> Vector(sum0.x, 0), count |-> 0])
  IN IF st.count > 0
     THEN [obj |-> "sum", start |-> Vector(sum0.x, 0),
           sum |-> Steer(a, pop,
                     VectorSub(VDiv(st.sum, R(st.count)), pop.loc[a]))]
     ELSE [obj |-> "zero", start |-> Vector(sum0.x, 0), sum |-> st.sum]

\* this.applyForce(this.<behaviour>(elements).mult(strength)): mult mutates
\* the object the behaviour returned, and the result is applied.
\* st = [acc, zero, sep, ali, coh, rets]: acceleration, zeroForceVector, the
\* three accumulators, and the values the behaviours returned.
FlockOne(st, r, strength, mass, which) ==
  LET before == IF r.obj = "sum" THEN r.sum ELSE st.zero
      force == VMult(before, strength)
  IN [st EXCEPT !.acc = ApplyForce(st.acc, force, mass),
                !.buf = VDiv(force, mass),
                !.applied = Append(st.applied,
                                   [src |-> which, force |-> force]),
                !.zero = IF r.obj = "zero" THEN force ELSE st.zero,
                ![which] = IF r.obj = "sum" THEN force ELSE r.sum,
                !.rets = Append(st.rets, before),
                !.starts = Append(st.starts, r.start)]

FlockSeparate(a, pop, st) ==
  Only({ FlockOne(st, r, opt[a].separateStrength, opt[a].mass, "sep") :
           r \in {separate(a, pop, st.sep)} })

FlockAlign(a, pop, st) ==
  Only({ FlockOne(st, r, opt[a].alignStrength, opt[a].mass, "ali") :
           r \in {align(a, pop, st.ali)} })

FlockCohesion(a, pop, st) ==
  Only({ FlockOne(st, r, opt[a].cohesionStrength, opt[a].mass, "coh") :
           r \in {cohesion(a, pop, st.coh)} })

flock(a, pop, st0) ==
  Only({ FlockCohesion(a, pop, s2) :
           s2 \in { FlockAlign(a, pop, s1) :
                      s1 \in {FlockSeparate(a, pop, st0)} } })

\* ------------------------------------------------------- checkWorldEdges

\* Variant: the wrap targets exchanged.
EdgeAxisWrapSwapped(p, v, half, size, o) ==
  IF o.wrapEdges
  THEN IF p > size THEN [p |-> size, v |-> v, check |-> TRUE]
       ELSE IF p < 0 THEN [p |-> 0, v |-> v, check |-> TRUE]
       ELSE [p |-> p, v |-> v, check |-> FALSE]
  ELSE IF p + half > size
       THEN [p |-> size - half, v |-> SMul(v, -o.bounciness), check |-> TRUE]
       ELSE IF p < half
       THEN [p |-> half, v |-> SMul(v, -o.bounciness), check |-> TRUE]
       ELSE [p |-> p, v |-> v, check |-> FALSE]

\* Variant: the rebound on the far edge keeps the velocity's sign.
EdgeAxisNoFlip(p, v, half, size, o) ==
  IF o.wrapEdges
  THEN IF p > size THEN [p |-> 0, v |-> v, check |-> TRUE]
       ELSE IF p < 0 THEN [p |-> size, v |-> v, check |-> TRUE]
       ELSE [p |-> p, v |-> v, check |-> FALSE]
  ELSE IF p + half > size
       THEN [p |-> size - half, v |-> SMul(v, o.bounciness), check |-> TRUE]
       ELSE IF p < half
       THEN [p |-> half, v |-> SMul(v, -o.bounciness), check |-> TRUE]
       ELSE [p |-> p, v |-> v, check |-> FALSE]

\* One axis of checkWorldEdges.  p, v: the location and velocity component;
\* half: width/2 or height/2; size: world.width or world.height.
\* Returns the new component values and whether the boundary was crossed.
EdgeAxis(p, v, half, size, o) ==
  IF o.wrapEdges
  THEN IF p > size THEN [p |-> 0, v |-> v, check |-> TRUE]
       ELSE IF p < 0 THEN [p |-> size, v |-> v, check |-> TRUE]
       ELSE [p |-> p, v |-> v, check |-> FALSE]
  ELSE IF p + half > size
       THEN [p |-> size - half, v |-> SMul(v, -o.bounciness), check |-> TRUE]
       ELSE IF p < half
       THEN [p |-> half, v |-> SMul(v, -o.bounciness), check |-> TRUE]
       ELSE [p |-> p, v |-> v, check |-> FALSE]

\* checkWorldEdges(world) on location loc and velocity vel of an agent with
\* options o; diff0 is cameraDiffVector and wloc world.location before.
checkWorldEdges(loc, vel, o, w, diff0, wloc) ==
  LET ex == EdgeAxis(loc.x, vel.x, TDiv(o.width, 2), w.width, o)
      ey == EdgeAxis(loc.y, vel.y, TDiv(o.height, 2), w.height, o)
      d1 == IF ex.check /\ o.controlCamera
            THEN Vector(loc.x - ex.p, 0) ELSE diff0
      d2 == IF ey.check /\ o.controlCamera
            THEN Vector(0, loc.y - ey.p) ELSE d1
      check == ex.check \/ ey.check
  IN [loc |-> Vector(ex.p, ey.p),
      vel |-> Vector(ex.v, ey.v),
      check |-> check,
      diff |-> d2,
      wloc |-> IF check /\ o.controlCamera THEN VAdd(wloc, d2) ELSE wloc]

\* ------------------------------------------------------------------ step

\* APPLY FORCES.  The registries of liquids, repellers and attractors are
\* empty, and world.c, followMouse, seekTarget and flowField have their
\* default (falsy) values; the sensors, the motor, wind, gravity, flocking
\* and the edge avoidance act.
ForcesStart(a) ==
  [acc |-> acceleration[a],
   buf |-> applyForceVector[a],
   zero |-> zeroForceVector[a],
   sep |-> separateSumForceVector[a],
   ali |-> alignSumForceVector[a],
   coh |-> cohesionSumForceVector[a],
   sensorActivated |-> FALSE,
   rets |-> << >>,
   starts |-> << >>,
   applied |-> << >>]

\* Where step() puts sensor s of agent a: the polar offset
\* (offsetDistance, angle + offsetAngle) from the agent's location.
SensorAt(a, s) ==
  VAdd(Vector(Location(a).x, Location(a).y),
       Vector(SMul(s.offsetDistance, CosDeg(angle[a] + s.offsetAngle)),
              SMul(s.offsetDistance, SinDeg(angle[a] + s.offsetAngle))))

\* The sensors after the loop has positioned them.
SensorsPlaced(a) ==
  [i \in 1..Len(sensors[a]) |->
     [sensors[a][i] EXCEPT !.location = SensorAt(a, opt[a].sensors[i])]]

\* The loop over this.sensors: an activated sensor's force is applied and
\* sensorActivated set.
RECURSIVE SensorScan(_, _, _)
SensorScan(a, i, st) ==
  IF i > Len(sensors[a]) THEN st
  ELSE IF sensors[a][i].activated
  THEN SensorScan(a, i + 1,
         [Applied(st, "sensor", opt[a].sensors[i].force, opt[a].mass)
            EXCEPT !.sensorActivated = TRUE])
  ELSE SensorScan(a, i + 1, st)

\* Variant: the motor pushes whether or not a sensor was activated.
MotorAlways(a, st) ==
  IF opt[a].motorSpeed # 0
  THEN Applied(st, "motor",
               VMult(Normalize(velocity[a]),
                     IF MagGT(velocity[a], opt[a].motorSpeed)
                     THEN -opt[a].motorSpeed ELSE opt[a].motorSpeed),
               opt[a].mass)
  ELSE st

\* if (!sensorActivated && this.motorSpeed): a force along the velocity,
\* against it when the agent is faster than motorSpeed.
Motor(a, st) ==
  IF ~st.sensorActivated /\ opt[a].motorSpeed # 0
  THEN Applied(st, "motor",
               VMult(Normalize(velocity[a]),
                     IF MagGT(velocity[a], opt[a].motorSpeed)
                     THEN -opt[a].motorSpeed ELSE opt[a].motorSpeed),
               opt[a].mass)
  ELSE st

OwnForces(a) ==
  Only({ Motor(a, s1) : s1 \in {SensorScan(a, 1, ForcesStart(a))} })

\* this.applyForce(world.wind); this.applyForce(world.gravity)
WorldForces(a) ==
  Only({ Applied(s2, "gravity", world.gravity, opt[a].mass) :
           s2 \in { Applied(s1, "wind", world.wind, opt[a].mass) :
                      s1 \in {OwnForces(a)} } })

Flocked(a, pop) ==
  IF opt[a].flocking
  THEN Only({ flock(a, pop, st) : st \in {WorldForces(a)} })
  ELSE WorldForces(a)

\* checkAvoidEdges().  maxSpeed is the function's local variable, written
\* in the x block and in the y block and tested after each; 0 stands for
\* undefined (both are falsy).
AvoidMaxSpeedX(a) ==
  IF Location(a).x < opt[a].avoidEdgesStrength THEN opt[a].maxSpeed
  ELSE IF Location(a).x > world.width - opt[a].avoidEdgesStrength
  THEN -opt[a].maxSpeed
  ELSE 0

AvoidMaxSpeedY(a) ==
  IF Location(a).y < opt[a].avoidEdgesStrength THEN opt[a].maxSpeed
  ELSE IF Location(a).y > world.height - opt[a].avoidEdgesStrength
  THEN -opt[a].maxSpeed
  ELSE AvoidMaxSpeedX(a)

AvoidX(a, st) ==
  IF AvoidMaxSpeedX(a) # 0
  THEN Applied(st, "avoidX",
               Limit(VectorSub(Vector(AvoidMaxSpeedX(a), velocity[a].y),
                               velocity[a]),
                     opt[a].maxSteeringForce),
               opt[a].mass)
  ELSE st

AvoidY(a, st) ==
  IF AvoidMaxSpeedY(a) # 0
  THEN Applied(st, "avoidY",
               Limit(VectorSub(Vector(velocity[a].x, AvoidMaxSpeedY(a)),
                               velocity[a]),
                     opt[a].maxSteeringForce),
               opt[a].mass)
  ELSE st

checkAvoidEdges(a, st) == Only({ AvoidY(a, s1) : s1 \in {AvoidX(a, st)} })

AvoidEdges(a, st) == IF opt[a].avoidEdges THEN checkAvoidEdges(a, st) ELSE st

\* Variant: the flock reads the other agents as of the last frame's end.
ApplyForcesBuffered(a) ==
  Only({ AvoidEdges(a, st) :
           st \in { Flocked(a, pop) :
                      pop \in { [loc |-> [b \in Agents |->
                                            IF b = a THEN Location(a)
                                            ELSE frameStart.loc[b]],
                                 vel |-> [b \in Agents |->
                                            IF b = a THEN velocity[a]
                                            ELSE frameStart.vel[b]]] } } })

ApplyForces(a) ==
  Only({ AvoidEdges(a, st) : st \in {Flocked(a, Elements)} })

\* Variant: the minSpeed clamp left out.
IntegrateHighOnly(vel, acc, o) ==
  LET v1 == VAdd(vel, acc)
  IN IF o.maxSpeed # 0 THEN Limit(v1, o.maxSpeed) ELSE v1

\* this.velocity.add(this.acceleration)
Accelerated(vel, acc) == VAdd(vel, acc)

\* velocity.add(acceleration); limit(maxSpeed); limitLow(minSpeed)
Integrate(vel, acc, o) ==
  LET v1 == Accelerated(vel, acc)
      v2 == IF o.maxSpeed # 0 THEN Limit(v1, o.maxSpeed) ELSE v1
  IN IF o.minSpeed # 0 THEN LimitLow(v2, o.minSpeed) ELSE v2

\* the polar offset (offsetDistance, parent.angle + offsetAngle)
ParentOffset(a) ==
  LET theta == angle[opt[a].parent] + opt[a].offsetAngle
  IN Vector(SMul(opt[a].offsetDistance, CosDeg(theta)),
            SMul(opt[a].offsetDistance, SinDeg(theta)))

\* The parenting block: the cells and the agent's location reference after
\* it, given the cells c1 after integration and the edge check.
Parenting(a, c1) ==
  IF opt[a].parent = 0 THEN [cell |-> c1, ref |-> locRef[a]]
  ELSE IF opt[a].offsetDistance # 0
  THEN [cell |-> [c1 EXCEPT ![locRef[a]] =
                    VAdd(c1[locRef[opt[a].parent]], ParentOffset(a))],
        ref |-> locRef[a]]
  ELSE [cell |-> c1, ref |-> locRef[opt[a].parent]]


\* Variant: the decrement without its guard.
DecrementAlways(life) == life - 1

\* if (this.lifespan > 0) this.lifespan -= 1
Decrement(life) == IF life > 0 THEN life - 1 ELSE life

\* Variant: isPressed not consulted.
FrozenStaticOnly(a) == opt[a].isStatic

\* Is the physics of step() skipped?
Frozen(a) == opt[a].isStatic \/ isPressed[a]

\* The hooks a step() call runs, in order.
Hooks(a) ==
  (IF opt[a].beforeStep THEN << "beforeStep" >> ELSE << >>)
  \o (IF ~Frozen(a) /\ opt[a].afterStep THEN << "afterStep" >> ELSE << >>)

\* checkCameraEdges(): world.location moves against the velocity.
checkCameraEdges(wloc, v) == VAdd(wloc, VMult(v, -Q))

\* world.location when checkWorldEdges is reached
CameraFollow(a, v) ==
  IF opt[a].controlCamera THEN checkCameraEdges(world.location, v)
  ELSE world.location

\* pointToDirection, checkCameraEdges and checkWorldEdges, for the velocity v
\* the integration produced.
Moved(a, v) ==
  LET o == opt[a]
      l1 == VAdd(Location(a), v)
      wl1 == CameraFollow(a, v)
  IN IF o.checkEdges \/ o.wrapEdges
     THEN checkWorldEdges(l1, v, o, world, cameraDiffVector[a], wl1)
     ELSE [loc |-> l1, vel |-> v, check |-> FALSE,
           diff |-> cameraDiffVector[a], wloc |-> wl1]

Pointed(a, v) ==
  IF opt[a].pointToDirection /\ Mag(v) * 10 > Q
  THEN Atan2Deg(v.y, v.x) ELSE angle[a]

StepRecord(a, f, v, e, pr) ==
  [cell |-> pr.cell, ref |-> pr.ref, vel |-> e.vel,
   acc |-> VMult(f.acc, 0), angle |-> Pointed(a, v),
   life |-> Decrement(lifespan[a]),
   zero |-> f.zero, sep |-> f.sep, ali |-> f.ali, coh |-> f.coh,
   diff |-> e.diff, wloc |-> e.wloc,
   buf |-> f.buf, sensors |-> SensorsPlaced(a),
   wind |-> ForceAfterApply(world.wind, opt[a].mass),
   gravity |-> ForceAfterApply(world.gravity, opt[a].mass),
   integVel |-> v, edgeIn |-> VAdd(Location(a), v), edgeOut |-> e.loc,
   edgeRan |-> opt[a].checkEdges \/ opt[a].wrapEdges,
   flockRets |-> f.rets, flockStarts |-> f.starts,
   applied |-> f.applied, sensed |-> f.sensorActivated,
   preClamp |-> Accelerated(velocity[a], f.acc),
   wlocIn |-> CameraFollow(a, v), check |-> e.check]

AfterEdges(a, f, v, e) ==
  Only({ StepRecord(a, f, v, e, pr) :
           pr \in {Parenting(a, [cell EXCEPT ![locRef[a]] = e.loc])} })

AfterIntegrate(a, f, v) ==
  Only({ AfterEdges(a, f, v, e) : e \in {Moved(a, v)} })

AfterForces(a, f) ==
  Only({ AfterIntegrate(a, f, v) :
           v \in {Integrate(velocity[a], f.acc, opt[a])} })

\* The body of the if (!this.isStatic && !this.isPressed) block: the values
\* the agent's fields (and the objects it writes) hold when it ends.
ActiveStep(a) == Only({ AfterForces(a, f) : f \in {ApplyForces(a)} })

\* The state a step() call reads, kept for the properties below.
Snapshot ==
  [cell |-> cell, locRef |-> locRef, velocity |-> velocity,
   acceleration |-> acceleration, angle |-> angle, lifespan |-> lifespan,
   isPressed |-> isPressed, zero |-> zeroForceVector,
   sep |-> separateSumForceVector, ali |-> alignSumForceVector,
   coh |-> cohesionSumForceVector, pop |-> Elements,
   frameStart |-> frameStart, sensors |-> sensors, world |-> world,
   pushed |-> pushed, motorOff |-> motorOff]

NoStep ==
  [agent |-> 0, frozen |-> FALSE, hooks |-> << >>, pre |-> << >>,
   integVel |-> ZeroVector, edgeIn |-> ZeroVector, edgeOut |-> ZeroVector,
   edgeRan |-> FALSE, flockRets |-> << >>, flockStarts |-> << >>,
   applied |-> << >>,
   sensed |-> FALSE, preClamp |-> ZeroVector, wlocIn |-> ZeroVector,
   check |-> FALSE]

NoRet ==
  [op |-> "none", agent |-> 0, obj |-> 0, returned |-> ZeroVector,
   value |-> ZeroVector, loc |-> ZeroVector, vel |-> ZeroVector]

\* The driver: every frame steps each agent once, in registry order.
Advance ==
  /\ cursor' = IF cursor = NumAgents THEN 1 ELSE cursor + 1
  /\ frame' = IF cursor = NumAgents THEN frame + 1 ELSE frame

Step(a) ==
  /\ a = cursor
  /\ frame < MaxFrames
  /\ Advance
  /\ ret' = NoRet
  /\ UNCHANGED << opt, isPressed >>
  /\ IF Frozen(a)
     THEN /\ last' = [NoStep EXCEPT !.agent = a, !.frozen = TRUE,
                                    !.hooks = Hooks(a), !.pre = Snapshot]
          /\ frameStart' = IF cursor = NumAgents THEN Elements ELSE frameStart
          /\ UNCHANGED << locRef, cell, velocity, acceleration, angle,
                          lifespan, zeroForceVector, separateSumForceVector,
                          alignSumForceVector, cohesionSumForceVector,
                          cameraDiffVector, applyForceVector, sensors, world,
                          activeSteps, pushed, pushes, motorOff >>
     ELSE \E r \in {ActiveStep(a)} :
             /\ cell' = r.cell
             /\ locRef' = [locRef EXCEPT ![a] = r.ref]
             /\ velocity' = [velocity EXCEPT ![a] = r.vel]
             /\ acceleration' = [acceleration EXCEPT ![a] = r.acc]
             /\ angle' = [angle EXCEPT ![a] = r.angle]
             /\ lifespan' = [lifespan EXCEPT ![a] = r.life]
             /\ zeroForceVector' = [zeroForceVector EXCEPT ![a] = r.zero]
             /\ separateSumForceVector' =
                  [separateSumForceVector EXCEPT ![a] = r.sep]
             /\ alignSumForceVector' =
                  [alignSumForceVector EXCEPT ![a] = r.ali]
             /\ cohesionSumForceVector' =
                  [cohesionSumForceVector EXCEPT ![a] = r.coh]
             /\ cameraDiffVector' = [cameraDiffVector EXCEPT ![a] = r.diff]
             /\ applyForceVector' = [applyForceVector EXCEPT ![a] = r.buf]
             /\ sensors' = [sensors EXCEPT ![a] = r.sensors]
             /\ world' = [world EXCEPT !.location = r.wloc, !.wind = r.wind,
                                       !.gravity = r.gravity]
             /\ activeSteps' = [activeSteps EXCEPT ![a] = @ + 1]
             /\ pushed' = [pushed EXCEPT ![a] = ZeroVector]
             /\ pushes' = pushes
             /\ motorOff' = [motorOff EXCEPT
                               ![a] = @ \/ (r.sensed /\ opt[a].motorSpeed # 0)]
             /\ last' = [agent |-> a, frozen |-> FALSE, hooks |-> Hooks(a),
                         pre |-> Snapshot, integVel |-> r.integVel,
                         edgeIn |-> r.edgeIn, edgeOut |-> r.edgeOut,
                         edgeRan |-> r.edgeRan,
                         flockRets |-> r.flockRets,
                         flockStarts |-> r.flockStarts, applied |-> r.applied,
                         sensed |-> r.sensed, preClamp |-> r.preClamp,
                         wlocIn |-> r.wlocIn, check |-> r.check]
             /\ frameStart' =
                  IF cursor = NumAgents
                  THEN [loc |-> [b \in Agents |->
                                   r.cell[IF b = a THEN r.ref ELSE locRef[b]]],
                        vel |-> [velocity EXCEPT ![a] = r.vel]]
                  ELSE frameStart

\* ------------------------------------------------------------- accessors

\* getLocation(type) and getVelocity(type).  With no type the result is a
\* new Vector object; with 'x' or 'y' it is a number.
getLocation(a, type) ==
  IF type = "none" THEN Vector(Location(a).x, Location(a).y)
  ELSE IF type = "x" THEN Location(a).x
  ELSE Location(a).y

getVelocity(a, type) ==
  IF type = "none" THEN Vector(Location(a).x, Location(a).y)
  ELSE IF type = "x" THEN velocity[a].x
  ELSE velocity[a].y

\* ret.obj = 0: the returned vector is an object of its own; otherwise the
\* cell it shares with an agent's location.
GetLocation(a) ==
  /\ ret' = [op |-> "getLocation", agent |-> a, obj |-> 0,
             returned |-> getLocation(a, "none"),
             value |-> getLocation(a, "none"),
             loc |-> Vector(getLocation(a, "x"), getLocation(a, "y")),
             vel |-> Vector(getVelocity(a, "x"), getVelocity(a, "y"))]
  /\ UNCHANGED << opt, isPressed, locRef, cell, velocity, acceleration, angle,
                  lifespan, zeroForceVector, separateSumForceVector,
                  alignSumForceVector, cohesionSumForceVector,
                  cameraDiffVector, applyForceVector, sensors, world,
                  cursor, frame, frameStart, pushed, pushes, motorOff,
                  activeSteps, last >>

GetVelocity(a) ==
  /\ ret' = [op |-> "getVelocity", agent |-> a, obj |-> 0,
             returned |-> getVelocity(a, "none"),
             value |-> getVelocity(a, "none"),
             loc |-> Vector(getLocation(a, "x"), getLocation(a, "y")),
             vel |-> Vector(getVelocity(a, "x"), getVelocity(a, "y"))]
  /\ UNCHANGED << opt, isPressed, locRef, cell, velocity, acceleration, angle,
                  lifespan, zeroForceVector, separateSumForceVector,
                  alignSumForceVector, cohesionSumForceVector,
                  cameraDiffVector, applyForceVector, sensors, world,
                  cursor, frame, frameStart, pushed, pushes, motorOff,
                  activeSteps, last >>

\* The caller adds d to the vector an accessor returned.
MutateReturned(d) ==
  /\ ret.op # "none"
  /\ ret.value = ret.returned
  /\ ret' = [ret EXCEPT !.value = VAdd(ret.value, d)]
  /\ cell' = IF ret.obj = 0 THEN cell
             ELSE [cell EXCEPT ![ret.obj] = VAdd(cell[ret.obj], d)]
  /\ UNCHANGED << opt, isPressed, locRef, velocity, acceleration, angle,
                  lifespan, zeroForceVector, separateSumForceVector,
                  alignSumForceVector, cohesionSumForceVector,
                  cameraDiffVector, applyForceVector, sensors, world,
                  cursor, frame, frameStart, pushed, pushes, motorOff,
                  activeSteps, last >>

\* ------------------------------------------------------ mouse handlers

\* Element.mousedown / Element.mouseup on a draggable agent's element.
Press(a) ==
  /\ opt[a].draggable
  /\ ~isPressed[a]
  /\ isPressed' = [isPressed EXCEPT ![a] = TRUE]
  /\ UNCHANGED << opt, locRef, cell, velocity, acceleration, angle, lifespan,
                  zeroForceVector, separateSumForceVector,
                  alignSumForceVector, cohesionSumForceVector,
                  cameraDiffVector, applyForceVector, sensors, world,
                  cursor, frame, frameStart, pushed, pushes, motorOff,
                  activeSteps, last, ret >>

Release(a) ==
  /\ opt[a].draggable
  /\ isPressed[a]
  /\ isPressed' = [isPressed EXCEPT ![a] = FALSE]
  /\ UNCHANGED << opt, locRef, cell, velocity, acceleration, angle, lifespan,
                  zeroForceVector, separateSumForceVector,
                  alignSumForceVector, cohesionSumForceVector,
                  cameraDiffVector, applyForceVector, sensors, world,
                  cursor, frame, frameStart, pushed, pushes, motorOff,
                  activeSteps, last, ret >>

\* ------------------------------------------------- sensors, applyForce

\* A sensor's own step finds or loses its stimulus.
Sense(a, i) ==
  /\ i \in 1..Len(sensors[a])
  /\ sensors' = [sensors EXCEPT ![a][i].activated = ~@]
  /\ UNCHANGED << opt, isPressed, locRef, cell, velocity, acceleration, angle,
                  lifespan, zeroForceVector, separateSumForceVector,
                  alignSumForceVector, cohesionSumForceVector,
                  cameraDiffVector, applyForceVector, world, cursor, frame,
                  frameStart, activeSteps, pushed, pushes, motorOff, last,
                  ret >>

\* applyForce(force) called from outside on the agent the driver steps
\* next, as from a drag in the UI.
Push(a, force) ==
  /\ frame < MaxFrames
  /\ a = cursor
  /\ pushes < MaxPushes
  /\ pushes' = pushes + 1
  /\ acceleration' =
       [acceleration EXCEPT ![a] = ApplyForce(@, force, opt[a].mass)]
  /\ applyForceVector' =
       [applyForceVector EXCEPT ![a] = VDiv(force, opt[a].mass)]
  /\ pushed' = [pushed EXCEPT ![a] = VAdd(@, VDiv(force, opt[a].mass))]
  /\ UNCHANGED << opt, isPressed, locRef, cell, velocity, angle, lifespan,
                  zeroForceVector, separateSumForceVector,
                  alignSumForceVector, cohesionSumForceVector,
                  cameraDiffVector, sensors, world, cursor, frame,
                  frameStart, activeSteps, motorOff, last, ret >>

\* ------------------------------------------------------------ the inputs

\* The options as the constructor stores them when none is passed; width,
\* height, className, parent and controlCamera are Element's.
DefaultOptions ==
  [mass |-> R(10), maxSpeed |-> R(10), minSpeed |-> 0, lifespan |-> -1,
   offsetDistance |-> R(30), offsetAngle |-> 0, pointToDirection |-> TRUE,
   isStatic |-> FALSE, draggable |-> FALSE, checkEdges |-> TRUE,
   wrapEdges |-> FALSE, bounciness |-> (3 * Q) \div 4,
   maxSteeringForce |-> R(100), flocking |-> FALSE,
   desiredSeparation |-> R(40), separateStrength |-> (3 * Q) \div 10,
   alignStrength |-> (2 * Q) \div 10, cohesionStrength |-> Q \div 10,
   beforeStep |-> FALSE, afterStep |-> FALSE,
   motorSpeed |-> 0, avoidEdges |-> FALSE, avoidEdgesStrength |-> R(200),
   sensors |-> << >>,
   width |-> R(20), height |-> R(20), className |-> "agent", parent |-> 0,
   controlCamera |-> FALSE]

World0 ==
  [width |-> R(800), height |-> R(600), wind |-> ZeroVector,
   gravity |-> ZeroVector, location |-> ZeroVector]

Calm == [wind |-> ZeroVector, gravity |-> ZeroVector]
Windy == [wind |-> Vector(R(1), 0), gravity |-> ZeroVector]
Heavy == [wind |-> ZeroVector, gravity |-> Vector(0, R(1))]

\* Where an agent starts and how fast, with the weather it may start in:
\* every vector of a run stays parallel to one axis, or is a diagonal no
\* clamp acts on.
Starts ==
  { [loc |-> Vector(R(5), R(50)), vel |-> Vector(R(v), 0), air |-> w] :
      v \in {-10, -5, -2, 0}, w \in {Calm, Windy} }
  \cup { [loc |-> Vector(R(795), R(50)), vel |-> Vector(R(v), 0), air |-> w] :
      v \in {5, 10}, w \in {Calm, Windy} }
  \cup { [loc |-> Vector(R(400), R(300)), vel |-> Vector(R(1), 0), air |-> w] :
      w \in {Calm, Windy} }
  \cup { [loc |-> Vector(R(50), R(5)), vel |-> Vector(0, R(v)), air |-> w] :
      v \in {-10, -5}, w \in {Calm, Heavy} }
  \cup { [loc |-> Vector(R(50), R(595)), vel |-> Vector(0, R(10)), air |-> w] :
      w \in {Calm, Heavy} }
  \cup { [loc |-> Vector(R(2), R(3)), vel |-> Vector(R(-5), R(-5)),
          air |-> Calm] }

Lifecycles ==
  { [DefaultOptions EXCEPT !.isStatic = s, !.draggable = d, !.beforeStep = h,
                           !.afterStep = h, !.lifespan = l] :
      s \in BOOLEAN, d \in BOOLEAN, h \in BOOLEAN, l \in {-1, 0, 2} }

EdgePolicies ==
  { [DefaultOptions EXCEPT !.checkEdges = m[1], !.wrapEdges = m[2],
                           !.bounciness = b, !.minSpeed = n] :
      m \in { << TRUE, FALSE >>, << TRUE, TRUE >>, << FALSE, TRUE >>,
              << FALSE, FALSE >> },
      b \in {0, (3 * Q) \div 4, Q}, n \in {0, R(2)} }

Bystander == [DefaultOptions EXCEPT !.className = "bystander"]

\* One agent under study, the others standing by in the middle of the world.
Solo ==
  { [opts |-> [b \in Agents |-> IF b = 1 THEN o ELSE Bystander],
     loc |-> [b \in Agents |->
                IF b = 1 THEN s.loc ELSE Vector(R(400), R(100 * b))],
     vel |-> [b \in Agents |-> IF b = 1 THEN s.vel ELSE ZeroVector],
     angle |-> [b \in Agents |-> 0],
     air |-> s.air] :
      o \in Lifecycles \cup EdgePolicies, s \in Starts }

Children(p) ==
  { [DefaultOptions EXCEPT !.parent = p, !.offsetDistance = r,
                           !.offsetAngle = t, !.wrapEdges = w,
                           !.isStatic = s] :
      r \in {0, R(30)}, t \in {0, 90}, w \in BOOLEAN, s \in BOOLEAN }

\* One parent (the first or the last agent of the registry), standing or
\* moving, and the others its children.
FamiliesOf(p) ==
  { [opts |-> [b \in Agents |->
                 IF b = p THEN [DefaultOptions EXCEPT !.isStatic = ps] ELSE c],
     loc |-> [b \in Agents |->
                IF b = p THEN Vector(R(400), R(300)) ELSE s.loc],
     vel |-> [b \in Agents |-> IF b = p THEN Vector(R(5), 0) ELSE s.vel],
     angle |-> [b \in Agents |-> IF b = p THEN pa ELSE 0],
     air |-> s.air] :
      ps \in BOOLEAN, pa \in {0, 90}, c \in Children(p),
      s \in { t \in Starts : t.loc.x = R(5) /\ t.vel.x # 0 /\ t.vel.y = 0 } }

Families == FamiliesOf(1) \cup FamiliesOf(NumAgents)

\* A flock on a horizontal line, gap apart, moving along it.
Flocks ==
  { [opts |-> [b \in Agents |->
                 [DefaultOptions EXCEPT
                    !.flocking = TRUE,
                    !.isStatic = (b = 1 /\ s1),
                    !.className = IF b = 1 THEN cn ELSE "agent"]],
     loc |-> [b \in Agents |-> Vector(R(400 + gap * (b - 1)), R(300))],
     vel |-> [b \in Agents |-> IF b = 1 THEN Vector(R(v1), 0)
                                ELSE Vector(R(-1), 0)],
     angle |-> [b \in Agents |-> 0],
     air |-> w] :
      s1 \in BOOLEAN, cn \in {"agent", "bystander"}, gap \in {0, 4, 30, 100},
      v1 \in {0, 2, 8}, w \in {Calm, Windy} }

\* Two sensors: what getActivationForce() of each returns, and where the
\* agent carries it.
Feeler ==
  [offsetDistance |-> R(30), offsetAngle |-> 0, force |-> Vector(R(-10), 0)]

Antenna ==
  [offsetDistance |-> R(30), offsetAngle |-> 90, force |-> Vector(R(20), 0)]

\* An agent with a motor, carrying no, one or two sensors, slower or faster
\* than its motor drives it.
Motors ==
  { [opts |-> [b \in Agents |->
                 IF b = 1
                 THEN [DefaultOptions EXCEPT !.motorSpeed = m, !.sensors = ss]
                 ELSE Bystander],
     loc |-> [b \in Agents |-> Vector(R(400), R(100 * b))],
     vel |-> [b \in Agents |-> IF b = 1 THEN Vector(R(v), 0) ELSE ZeroVector],
     angle |-> [b \in Agents |-> 0],
     air |-> w] :
      m \in {0, R(2)}, ss \in { << >>, << Feeler >>, << Feeler, Antenna >> },
      v \in {1, 5}, w \in {Calm, Windy} }

\* An agent that avoids the edges, started near no edge, near one, or in a
\* corner of the world.
Avoiders ==
  { [opts |-> [b \in Agents |->
                 IF b = 1
                 THEN [DefaultOptions EXCEPT !.avoidEdges = TRUE,
                                             !.maxSpeed = ms]
                 ELSE Bystander],
     loc |-> [b \in Agents |->
                IF b = 1 THEN l ELSE Vector(R(400), R(100 * b))],
     vel |-> [b \in Agents |-> IF b = 1 THEN Vector(R(v), 0) ELSE ZeroVector],
     angle |-> [b \in Agents |-> 0],
     air |-> Calm] :
      ms \in {0, R(10)}, v \in {0, 1},
      l \in { Vector(R(5), R(300)), Vector(R(795), R(300)),
              Vector(R(400), R(300)), Vector(R(400), R(5)),
              Vector(R(400), R(595)), Vector(R(5), R(50)),
              Vector(R(795), R(595)) } }

\* An agent the camera follows, crossing no edge, one, or two in one step.
Cameras ==
  { [opts |-> [b \in Agents |->
                 IF b = 1
                 THEN [DefaultOptions EXCEPT !.controlCamera = c,
                                             !.wrapEdges = wr]
                 ELSE Bystander],
     loc |-> [b \in Agents |->
                IF b = 1 THEN s.loc ELSE Vector(R(400), R(100 * b))],
     vel |-> [b \in Agents |-> IF b = 1 THEN s.vel ELSE ZeroVector],
     angle |-> [b \in Agents |-> 0],
     air |-> Calm] :
      c \in BOOLEAN, wr \in BOOLEAN,
      s \in { t \in Starts : t.air = Calm /\ t.vel # ZeroVector } }

Scenarios ==
  Solo \cup Families \cup Flocks \cup Motors \cup Avoiders \cup Cameras

Start(sc) ==
  /\ opt = sc.opts
  /\ isPressed = [b \in Agents |-> FALSE]
  /\ locRef = [b \in Agents |-> b]
  /\ cell = sc.loc
  /\ velocity = sc.vel
  /\ acceleration = [b \in Agents |-> ZeroVector]
  /\ angle = sc.angle
  /\ lifespan = [b \in Agents |-> sc.opts[b].lifespan]
  /\ zeroForceVector = [b \in Agents |-> ZeroVector]
  /\ separateSumForceVector = [b \in Agents |-> ZeroVector]
  /\ alignSumForceVector = [b \in Agents |-> ZeroVector]
  /\ cohesionSumForceVector = [b \in Agents |-> ZeroVector]
  /\ cameraDiffVector = [b \in Agents |-> ZeroVector]
  /\ applyForceVector = [b \in Agents |-> ZeroVector]
  /\ sensors = [b \in Agents |->
                  [i \in 1..Len(sc.opts[b].sensors) |->
                     [location |-> ZeroVector, activated |-> FALSE]]]
  /\ pushed = [b \in Agents |-> ZeroVector]
  /\ pushes = 0
  /\ motorOff = [b \in Agents |-> FALSE]
  /\ world = [World0 EXCEPT !.wind = sc.air.wind, !.gravity = sc.air.gravity]
  /\ cursor = 1
  /\ frame = 0
  /\ frameStart = [loc |-> sc.loc, vel |-> sc.vel]
  /\ activeSteps = [b \in Agents |-> 0]
  /\ last = NoStep
  /\ ret = NoRet

Init == \E sc \in Scenarios : Start(sc)

Next ==
  \/ \E a \in Agents : Step(a)
  \/ \E a \in Agents : Press(a)
  \/ \E a \in Agents : Release(a)
  \/ \E a \in Agents : \E i \in 1..Len(sensors[a]) : Sense(a, i)

Spec == Init /\ [][Next]_vars

\* applyForce() called from outside, between the steps.
ForceScenarios ==
  { sc \in Motors :
      /\ sc.vel[1] = Vector(R(1), 0) /\ sc.air = Windy
      /\ Len(sc.opts[1].sensors) <= 1 }
  \cup { sc \in Avoiders :
           /\ sc.vel[1] = Vector(R(1), 0) /\ sc.opts[1].maxSpeed # 0
           /\ sc.loc[1] \in {Vector(R(5), R(300)), Vector(R(400), R(5))} }
  \cup { sc \in Flocks :
           /\ sc.vel[1] = Vector(R(2), 0) /\ sc.air = Windy
           /\ ~sc.opts[1].isStatic /\ sc.opts[1].className = "agent"
           /\ sc.loc[2].x - sc.loc[1].x = R(4) }
  \cup { sc \in Solo :
           /\ sc.opts[1].draggable /\ ~sc.opts[1].isStatic
           /\ ~sc.opts[1].beforeStep /\ sc.opts[1].lifespan = -1
           /\ sc.vel[1] = Vector(R(1), 0) /\ sc.air = Windy }

InitForces == \E sc \in ForceScenarios : Start(sc)

NextForces ==
  \/ \E a \in Agents : Step(a)
  \/ \E a \in Agents : \E i \in 1..Len(sensors[a]) : Sense(a, i)
  \/ \E a \in Agents : Press(a)
  \/ \E a \in Agents : Release(a)
  \/ \E a \in Agents :
       \E f \in {Vector(R(10), R(-20))} : Push(a, f)

SpecForces == InitForces /\ [][NextForces]_vars

\* The accessors, called between the steps of one draggable agent.
AccessorScenarios ==
  { sc \in Solo : sc.opts[1].draggable /\ sc.loc[1] = Vector(R(5), R(50)) }

InitAccessors == \E sc \in AccessorScenarios : Start(sc)

NextAccessors ==
  \/ \E a \in Agents : Step(a)
  \/ \E a \in Agents : Press(a)
  \/ \E a \in Agents : Release(a)
  \/ \E a \in Agents : GetLocation(a)
  \/ \E a \in Agents : GetVelocity(a)
  \/ \E d \in {Vector(R(1), R(1))} : MutateReturned(d)

SpecAccessors == InitAccessors /\ [][NextAccessors]_vars

\* ================================================================ claims

\* The agent of the most recent step() call, and what that call read.
Stepped(a) == last.agent = a

SteppedActive(a) == last.agent = a /\ ~last.frozen

\* The step() calls made on agent a so far.
StepsTaken(a) == frame + (IF a < cursor THEN 1 ELSE 0)

\* ---------------------------------------------------------------------
\* C1.  A step() of a frozen agent (isStatic or isPressed) that has no
\* hooks leaves its location, velocity and acceleration as they were,
\* whatever wind, gravity, flock or parent is configured; so does any
\* number of such steps in a row.
FrozenStepKeepsKinematics ==
  \A a \in Agents :
    ( /\ Stepped(a)
      /\ opt[a].isStatic \/ last.pre.isPressed[a]
      /\ ~opt[a].beforeStep /\ ~opt[a].afterStep )
    => /\ Location(a) = last.pre.pop.loc[a]
       /\ velocity[a] = last.pre.velocity[a]
       /\ acceleration[a] = last.pre.acceleration[a]

\* A pressed (not static) flocking or wind-blown agent with a non-zero
\* velocity has taken its third step, two of them frozen, and stands where
\* its one active step left it.
FrozenStepWitness ==
  \E a \in Agents :
    /\ Stepped(a) /\ last.pre.isPressed[a] /\ ~opt[a].isStatic
    /\ ~opt[a].beforeStep /\ ~opt[a].afterStep
    /\ world.wind # ZeroVector /\ velocity[a] # ZeroVector
    /\ StepsTaken(a) = MaxFrames /\ activeSteps[a] = 1

\* ---------------------------------------------------------------------
\* C2.  getLocation() returns a new vector equal to the agent's location,
\* getVelocity() a new vector equal to its velocity (the x and y that
\* getVelocity('x') and getVelocity('y') return), and neither result shares
\* an object with the agent.
AccessorsReturnCopies ==
  /\ ret.op = "getLocation" => ret.returned = ret.loc /\ ret.obj = 0
  /\ ret.op = "getVelocity" => ret.returned = ret.vel /\ ret.obj = 0

\* ---------------------------------------------------------------------
\* C3.  Every step() of an agent with both hooks runs beforeStep once and
\* then afterStep once, frozen or not.
BothHooksRunEveryStep ==
  \A a \in Agents :
    (Stepped(a) /\ opt[a].beforeStep /\ opt[a].afterStep)
    => last.hooks = << "beforeStep", "afterStep" >>

\* ---------------------------------------------------------------------
\* C8.  lifespan -1 stays -1; a lifespan L >= 0 has fallen by one for each
\* active step taken, by nothing for a frozen step, and stays 0 once 0: it
\* is never below -1 and never negative after being 0.
LifespanCountsActiveSteps ==
  \A a \in Agents :
    lifespan[a] =
      IF opt[a].lifespan = -1 THEN -1
      ELSE IF opt[a].lifespan > activeSteps[a]
      THEN opt[a].lifespan - activeSteps[a]
      ELSE 0

\* An agent that started with lifespan 2 took three steps, one of them
\* frozen, and its lifespan is 0 after exactly two active ones.
LifespanWitness ==
  \E a \in Agents :
    /\ opt[a].lifespan = 2 /\ lifespan[a] = 0 /\ activeSteps[a] = 2
    /\ StepsTaken(a) = MaxFrames

\* ---------------------------------------------------------------------
\* C4 (as stated).  With 0 < minSpeed <= maxSpeed and 0 <= bounciness <= 1
\* the velocity that advanced the location, and the velocity the agent
\* holds when an active step has ended, have a magnitude of at most
\* maxSpeed and, unless zero, of at least minSpeed.
SpeedLimited(a) ==
  /\ 0 < opt[a].minSpeed /\ opt[a].minSpeed <= opt[a].maxSpeed
  /\ 0 <= opt[a].bounciness /\ opt[a].bounciness <= Q

WithinSpeeds(a, v) ==
  /\ ~MagGT(v, opt[a].maxSpeed)
  /\ v # ZeroVector => ~MagLT(v, opt[a].minSpeed)

SpeedClampedAtStepEnd ==
  \A a \in Agents :
    (SteppedActive(a) /\ SpeedLimited(a))
    => WithinSpeeds(a, last.integVel) /\ WithinSpeeds(a, velocity[a])

\* C4 (amended).  The velocity that advanced the location lies within
\* [minSpeed, maxSpeed] (or is zero); the velocity held when the step has
\* ended is at most maxSpeed, and the world-edge rebound may leave it below
\* minSpeed.
SpeedClampedAtIntegration ==
  \A a \in Agents :
    (SteppedActive(a) /\ SpeedLimited(a))
    => /\ WithinSpeeds(a, last.integVel)
       /\ ~MagGT(velocity[a], opt[a].maxSpeed)

\* limitLow scaled a slower velocity up to minSpeed, and in another step
\* limit scaled a faster one down to maxSpeed.
SpeedClampWitness ==
  \E a \in Agents :
    /\ SteppedActive(a) /\ SpeedLimited(a)
    /\ last.pre.velocity[a] # ZeroVector
    /\ MagLT(last.pre.velocity[a], opt[a].minSpeed)
    /\ MagSq(last.integVel) = opt[a].minSpeed * opt[a].minSpeed
    /\ last.edgeOut # last.edgeIn

\* ---------------------------------------------------------------------
\* C5.  When an active step of an agent with a parent has ended, the
\* agent's location is the parent's location (the one the parent had when
\* the step began: the step is not the parent's) plus the polar offset, or
\* that location itself when offsetDistance is 0, whatever the agent's own
\* location, velocity, forces and boundary policy were; without a parent it
\* is the integrated, boundary-adjusted location.
ParentAloneDecidesLocation ==
  \A a \in Agents :
    SteppedActive(a)
    => Location(a) =
         IF opt[a].parent = 0 THEN last.edgeOut
         ELSE IF opt[a].offsetDistance # 0
         THEN VAdd(last.pre.pop.loc[opt[a].parent], ParentOffset(a))
         ELSE last.pre.pop.loc[opt[a].parent]

\* ---------------------------------------------------------------------
\* C6.  An active step of an agent without parent and with wrapEdges maps
\* an integrated coordinate below 0 to the world's size and one above the
\* world's size to 0, keeps one in range, and keeps the velocity; so the
\* location ends inside [0, width] x [0, height].
WrapOf(p, size) == IF p < 0 THEN size ELSE IF p > size THEN 0 ELSE p

WrapKeepsAgentInWorld ==
  \A a \in Agents :
    (SteppedActive(a) /\ opt[a].parent = 0 /\ opt[a].wrapEdges)
    => /\ Location(a).x = WrapOf(last.edgeIn.x, world.width)
       /\ Location(a).y = WrapOf(last.edgeIn.y, world.height)
       /\ velocity[a] = last.integVel
       /\ 0 <= Location(a).x /\ Location(a).x <= world.width
       /\ 0 <= Location(a).y /\ Location(a).y <= world.height

\* The agent at (5, 50) with velocity (-10, 0) in the world 800 wide ended
\* its step at x = 800.
WrapWitness ==
  \E a \in Agents :
    /\ SteppedActive(a) /\ opt[a].parent = 0 /\ opt[a].wrapEdges
    /\ last.pre.pop.loc[a] = Vector(R(5), R(50))
    /\ last.integVel = Vector(R(-10), 0)
    /\ world.width = R(800)
    /\ Location(a) = Vector(R(800), R(50))

\* ---------------------------------------------------------------------
\* C7.  With wrapEdges false, in a world no smaller than the agent,
\* checkWorldEdges clamps a coordinate below width/2 (height/2) to it and
\* one above world.width - width/2 (world.height - height/2) to that, and
\* then replaces that axis' velocity by -bounciness times it; a coordinate
\* inside keeps its location and velocity.
BounceOf(p, half, size) ==
  IF p < half THEN half ELSE IF p > size - half THEN size - half ELSE p

ReboundOf(p, v, half, size, b) ==
  IF p < half \/ p > size - half THEN TDiv(-b * v, Q) ELSE v

BounceClampsAndRebounds ==
  \A a \in Agents :
    ( /\ SteppedActive(a) /\ last.edgeRan /\ ~opt[a].wrapEdges
      /\ opt[a].width <= world.width /\ opt[a].height <= world.height )
    => LET hw == opt[a].width \div 2
           hh == opt[a].height \div 2
       IN /\ last.edgeOut.x = BounceOf(last.edgeIn.x, hw, world.width)
          /\ last.edgeOut.y = BounceOf(last.edgeIn.y, hh, world.height)
          /\ velocity[a].x = ReboundOf(last.edgeIn.x, last.integVel.x, hw,
                                       world.width, opt[a].bounciness)
          /\ velocity[a].y = ReboundOf(last.edgeIn.y, last.integVel.y, hh,
                                       world.height, opt[a].bounciness)
          /\ hw <= last.edgeOut.x /\ last.edgeOut.x <= world.width - hw
          /\ hh <= last.edgeOut.y /\ last.edgeOut.y <= world.height - hh

\* The agent 20 wide with bounciness 0.75 reached x = 0 with velocity.x = -5
\* and left the check at x = 10 with velocity.x = 3.75.
BounceWitness ==
  \E a \in Agents :
    /\ SteppedActive(a) /\ last.edgeRan /\ ~opt[a].wrapEdges
    /\ opt[a].width = R(20) /\ 4 * opt[a].bounciness = 3 * Q
    /\ last.edgeIn = Vector(0, R(50)) /\ last.integVel.x = R(-5)
    /\ last.edgeOut.x = R(10) /\ 4 * velocity[a].x = R(15)

\* ---------------------------------------------------------------------
\* C9.  separate, align and cohesion return exactly (0, 0) when no element
\* of the population qualifies as a neighbour (same className, another id,
\* distance d with 0 < d < the behaviour's radius), also after earlier
\* flock() calls have scaled the zero vector they returned.
Qualifies(a, b, radius, pop) ==
  /\ opt[a].className = opt[b].className
  /\ a # b
  /\ 0 < MagSq(VectorSub(pop.loc[a], pop.loc[b]))
  /\ MagSq(VectorSub(pop.loc[a], pop.loc[b])) < radius * radius

Alone(a, radius, pop) == \A b \in Agents : ~Qualifies(a, b, radius, pop)

Radius(a, k) ==
  IF k = 1 THEN opt[a].desiredSeparation
  ELSE IF k = 2 THEN 2 * opt[a].width
  ELSE R(10)

NoNeighbourGivesZero ==
  \A a \in Agents :
    (SteppedActive(a) /\ opt[a].flocking)
    => \A k \in 1..3 :
         Alone(a, Radius(a, k), last.pre.pop)
         => last.flockRets[k] = ZeroVector

\* After steps in which it had neighbours for all three behaviours, and
\* with the cohesion accumulator still holding their result, an agent
\* flocked with no neighbour within the cohesion radius and got (0, 0).
NoNeighbourWitness ==
  \E a \in Agents :
    /\ SteppedActive(a) /\ opt[a].flocking /\ activeSteps[a] >= 2
    /\ Alone(a, Radius(a, 3), last.pre.pop)
    /\ ~Alone(a, Radius(a, 1), last.pre.pop)
    /\ last.pre.coh[a] # ZeroVector
    /\ last.flockRets[3] = ZeroVector

\* ---------------------------------------------------------------------
\* C10.  What separate, align and cohesion returned in a step, had they
\* read the population pop.
FlockRetsFrom(a, pop) ==
  flock(a, pop, [acc |-> ZeroVector, buf |-> ZeroVector,
                 zero |-> last.pre.zero[a],
                 sep |-> last.pre.sep[a], ali |-> last.pre.ali[a],
                 coh |-> last.pre.coh[a], sensorActivated |-> FALSE,
                 rets |-> << >>, starts |-> << >>, applied |-> << >>]).rets

\* The stepping agent as it is, the others as of the end of the last frame.
PreviousFrame(a) ==
  [loc |-> [b \in Agents |-> IF b = a THEN last.pre.pop.loc[a]
                              ELSE last.pre.frameStart.loc[b]],
   vel |-> [b \in Agents |-> IF b = a THEN last.pre.pop.vel[a]
                              ELSE last.pre.frameStart.vel[b]]]

\* C10 (as stated).  Within a frame every agent's flocking forces are
\* computed from the locations and velocities the other agents had at the
\* end of the previous frame.
FlockReadsPreviousFrame ==
  \A a \in Agents :
    (SteppedActive(a) /\ opt[a].flocking)
    => last.flockRets = FlockRetsFrom(a, PreviousFrame(a))

\* C10 (amended).  They are computed from the locations and velocities the
\* other agents hold when the agent's own step runs: for the agents stepped
\* before it in the frame, those of the current frame.
FlockReadsLiveElements ==
  \A a \in Agents :
    (SteppedActive(a) /\ opt[a].flocking)
    => last.flockRets = FlockRetsFrom(a, last.pre.pop)

\* An agent stepped after a neighbour that had moved in the same frame got
\* flocking forces other than the previous frame's positions give.
FlockLiveWitness ==
  \E a \in Agents :
    /\ SteppedActive(a) /\ opt[a].flocking /\ a > 1
    /\ last.pre.pop.loc[1] # last.pre.frameStart.loc[1]
    /\ ~Alone(a, Radius(a, 3), last.pre.pop)
    /\ last.flockRets # FlockRetsFrom(a, PreviousFrame(a))

\* ---------------------------------------------------------------------
\* C11.  The forces a step applied, by source.
FromSensor(e) == e.src = "sensor"

FromMotor(e) == e.src = "motor"

IsActivated(s) == s.activated

\* The sensors of agent a as the step found them, each with the force its
\* getActivationForce() returns.
SensorsRead(a) ==
  [i \in 1..Len(last.pre.sensors[a]) |->
     [activated |-> last.pre.sensors[a][i].activated,
      src |-> "sensor", force |-> opt[a].sensors[i].force]]

ForcesOf(seq) == [i \in 1..Len(seq) |-> seq[i].force]

\* C11.  An active step applies the motor force if and only if motorSpeed
\* is non-zero and no sensor of the agent is activated in that step; the
\* activation force of every activated sensor, and of no other, is applied.
\* This holds of every step by itself: a step with no activated sensor
\* applies the motor force whatever the steps before it did.
MotorYieldsToSensors ==
  \A a \in Agents :
    SteppedActive(a)
    => /\ Len(SelectSeq(last.applied, FromMotor))
            = IF opt[a].motorSpeed # 0
                 /\ SelectSeq(SensorsRead(a), IsActivated) = << >>
              THEN 1 ELSE 0
       /\ ForcesOf(SelectSeq(last.applied, FromSensor))
            = ForcesOf(SelectSeq(SensorsRead(a), IsActivated))

\* An agent whose motor a sensor had suppressed in an earlier step took a
\* step with no sensor activated, and the motor force was applied in it.
MotorResumesWitness ==
  \E a \in Agents :
    /\ SteppedActive(a) /\ last.pre.motorOff[a]
    /\ Len(opt[a].sensors) = 2
    /\ SelectSeq(SensorsRead(a), IsActivated) = << >>
    /\ Len(SelectSeq(last.applied, FromMotor)) = 1

\* ---------------------------------------------------------------------
\* C12.  What separate, align and cohesion return for the agent's state
\* and the population pop when no call was made before: the accumulators
\* as the constructor left them.
FlockRetsFresh(a, pop) ==
  flock(a, pop, [acc |-> ZeroVector, buf |-> ZeroVector,
                 zero |-> ZeroVector, sep |-> ZeroVector,
                 ali |-> ZeroVector, coh |-> ZeroVector,
                 sensorActivated |-> FALSE, rets |-> << >>,
                 starts |-> << >>, applied |-> << >>]).rets

\* C12.  In every call of separate, align and cohesion the sum accumulator
\* is (0, 0) when the loop over the elements begins, and the force
\* returned is the one a first call with the same agent state and the same
\* population returns.
AccumulatorsStartAtZero ==
  \A a \in Agents :
    (SteppedActive(a) /\ opt[a].flocking)
    => /\ \A k \in 1..3 : last.flockStarts[k] = ZeroVector
       /\ last.flockRets = FlockRetsFresh(a, last.pre.pop)

\* ---------------------------------------------------------------------
\* C13.  Is the coordinate p within the avoidance margin of either end of
\* [0, size]?
NearEdge(p, size, margin) == p < margin \/ p > size - margin

FromAvoidX(e) == e.src = "avoidX"

FromAvoidY(e) == e.src = "avoidY"

\* C13.  A step of an agent with avoidEdges and a non-zero maxSpeed applies
\* an x-axis avoidance force if and only if location.x is within
\* avoidEdgesStrength of the left or right edge, and a y-axis avoidance
\* force if and only if location.y is within avoidEdgesStrength of the top
\* or bottom edge.
AvoidanceIsPerAxis ==
  \A a \in Agents :
    (SteppedActive(a) /\ opt[a].avoidEdges /\ opt[a].maxSpeed # 0)
    => /\ Len(SelectSeq(last.applied, FromAvoidX)) =
            IF NearEdge(last.pre.pop.loc[a].x, world.width,
                        opt[a].avoidEdgesStrength) THEN 1 ELSE 0
       /\ Len(SelectSeq(last.applied, FromAvoidY)) =
            IF NearEdge(last.pre.pop.loc[a].y, world.height,
                        opt[a].avoidEdgesStrength) THEN 1 ELSE 0

\* ---------------------------------------------------------------------
\* C14.  checkWorldEdges returns true if and only if it moved the agent;
\* for an agent with controlCamera it then adds the displacement (the
\* location before the check minus the location after it, on both axes)
\* to world.location, and otherwise it leaves world.location as it was.
CameraTakesDisplacement ==
  \A a \in Agents :
    (SteppedActive(a) /\ last.edgeRan)
    => /\ last.check <=> last.edgeOut # last.edgeIn
       /\ world.location =
            IF last.check /\ opt[a].controlCamera
            THEN VAdd(last.wlocIn, VectorSub(last.edgeIn, last.edgeOut))
            ELSE last.wlocIn

\* ---------------------------------------------------------------------
\* C15.  When an active step of an agent with a parent has ended, the
\* parent's location has the x and y it had when the step began, and the
\* agent's location is a vector no other agent's location field refers
\* to, also with offsetDistance 0.
ChildStepSparesParent ==
  \A a \in Agents :
    (SteppedActive(a) /\ opt[a].parent # 0)
    => /\ Location(opt[a].parent) = last.pre.pop.loc[opt[a].parent]
       /\ \A b \in Agents \ {a} : locRef[b] # locRef[a]

\* ---------------------------------------------------------------------
\* C16.  The sum of force / mass over a sequence of applied forces.
RECURSIVE SumOverMass(_, _)
SumOverMass(seq, mass) ==
  IF seq = << >> THEN ZeroVector
  ELSE VAdd(Vector(TDiv(Head(seq).force.x * Q, mass),
                   TDiv(Head(seq).force.y * Q, mass)),
            SumOverMass(Tail(seq), mass))

\* C16.  When an active step has ended the acceleration is (0, 0); the
\* velocity the step clamped is the velocity it found plus the sum of
\* force / mass over the forces applied since the agent's last active step
\* ended (the ones applied from outside and the ones the step applied);
\* and world.wind and world.gravity, passed to applyForce, have the values
\* they had.
AccelerationIsForcesOverMass ==
  \A a \in Agents :
    SteppedActive(a)
    => /\ acceleration[a] = ZeroVector
       /\ VectorSub(last.preClamp, last.pre.velocity[a])
            = VAdd(last.pre.pushed[a],
                   SumOverMass(last.applied, opt[a].mass))
       /\ world.wind = last.pre.world.wind
       /\ world.gravity = last.pre.world.gravity

\* A wind-blown agent that was frozen in one of its steps and pushed from
\* outside since its first active step took its second active step: the
\* push, the wind and the gravity made up the change of its velocity.
ForcesSumWitness ==
  \E a \in Agents :
    /\ SteppedActive(a) /\ activeSteps[a] = 2 /\ StepsTaken(a) = MaxFrames
    /\ last.pre.pushed[a] # ZeroVector
    /\ world.wind # ZeroVector
    /\ Len(last.applied) >= 2
    /\ last.preClamp # last.pre.velocity[a]

====
